---- MODULE Spec2Model ----
(***************************************************************************)
(* Model of the nexus breach calculator (src/src/calculator/nexus.py):     *)
(* NexusCalculator.analyze_state, analyze_all_states and the two look-back *)
(* policies, over cleaned sales rows as DataCleaner.clean produces them,   *)
(* and of the data cleaner (src/src/data/cleaner.py): DataCleaner.clean    *)
(* over raw frames, and of the configuration loader                        *)
(* (src/src/config/schema.py): NexusConfig.from_yaml over a parsed YAML    *)
(* mapping.                                                                *)
(*                                                                         *)
(* Dates are day numbers counted from January 1 of BaseYear.  Optional     *)
(* values (Python None) are sequences: None is <<>>, a present value x is  *)
(* <<x>>.  Amounts are integers, so every sum is exact.                    *)
(***************************************************************************)
EXTENDS Integers, Sequences, FiniteSets, TLC

VARIABLES config, config_keys, sales_data, result, results, call_log,
          raw_df, clean_df, yaml_data, nexus_config, raised

vars == <<config, config_keys, sales_data, result, results, call_log, raw_df, clean_df,
          yaml_data, nexus_config, raised>>

-----------------------------------------------------------------------------
(* Optional values                                                         *)

None == <<>>

Some(x) == <<x>>

\* A threshold test that only asks whether the value is present (is not None).
Truthy_NotNone(o) == o # None

\* Python truthiness of an optional number: None and 0 are both falsy.
Truthy(o) == o # None /\ o[1] # 0

-----------------------------------------------------------------------------
(* Calendar                                                                *)

BaseYear == 2022

WindowDays == 365

IsLeap(y) == (y % 4 = 0 /\ y % 100 # 0) \/ y % 400 = 0

DaysInYear(y) == IF IsLeap(y) THEN 366 ELSE 365

RECURSIVE YearFrom(_, _)
YearFrom(y, d) == IF d < DaysInYear(y) THEN y ELSE YearFrom(y + 1, d - DaysInYear(y))

\* date.dt.year
YearOf(d) == YearFrom(BaseYear, d)

RECURSIVE DaysBefore(_)
DaysBefore(y) == IF y <= BaseYear THEN 0 ELSE DaysInYear(y - 1) + DaysBefore(y - 1)

\* datetime(year, 1, 1)
Jan1(y) == DaysBefore(y)

-----------------------------------------------------------------------------
(* State codes, in the order Python compares the strings                   *)

StateCodes == <<"CA", "NY", "TX">>

States == {StateCodes[i] : i \in 1..Len(StateCodes)}

StateRank(s) == CHOOSE i \in 1..Len(StateCodes) : StateCodes[i] = s

\* Python's s1 < s2 on state codes
StateLess(s1, s2) == StateRank(s1) < StateRank(s2)

-----------------------------------------------------------------------------
(* Result container                                                        *)

NexusBreachResult(state, has_nexus, lookback_rule) ==
    [state |-> state, has_nexus |-> has_nexus, breach_date |-> None,
     breach_type |-> None, breach_amount |-> None, lookback_rule |-> lookback_rule]

Breach(state, rule, type, date, amount) ==
    [state |-> state, has_nexus |-> TRUE, breach_date |-> Some(date),
     breach_type |-> Some(type), breach_amount |-> Some(amount),
     lookback_rule |-> Some(rule)]

-----------------------------------------------------------------------------
(* Rolling-12-month rule                                                   *)

\* The record set taken as it is, rows of other states included.
StateData_Unfiltered(state, sales) == sales

\* sales_data[sales_data["state"] == state]
StateData(state, sales) == {r \in sales : r.state = state}

\* The earliest and the latest date of a non-empty set of rows.
MinDate(rows) == CHOOSE d \in {r.date : r \in rows} : \A r \in rows : d <= r.date

MaxDate(rows) == CHOOSE d \in {r.date : r \in rows} : \A r \in rows : r.date <= d

RECURSIVE AnyOrder(_)
\* Rows of equal date, in no particular order.
AnyOrder(rows) ==
    IF rows = {} THEN <<>>
    ELSE LET r == CHOOSE x \in rows : TRUE
         IN  <<r>> \o AnyOrder(rows \ {r})

RECURSIVE SortRange(_, _, _)
\* The rows, all dated within lo..hi, in ascending date order.
SortRange(rows, lo, hi) ==
    IF rows = {} THEN <<>>
    ELSE IF lo >= hi THEN AnyOrder(rows)
    ELSE LET mid == (lo + hi) \div 2
         IN  SortRange({r \in rows : r.date <= mid}, lo, mid)
                \o SortRange({r \in rows : r.date > mid}, mid + 1, hi)

\* data.sort_values("date"): the rows in ascending date order.
SortValues(data) ==
    IF data = {} THEN <<>> ELSE SortRange(data, MinDate(data), MaxDate(data))

\* Marketplace sales counted whatever the flag says.
InclusionFlag_Always(cfg) == TRUE

\* config.get("marketplace_threshold_inclusion", True)
InclusionFlag(cfg) ==
    IF cfg.marketplace_threshold_inclusion = None THEN TRUE
    ELSE cfg.marketplace_threshold_inclusion[1]

\* What counts toward the sales threshold, for one row.
ThresholdSales(r, cfg) ==
    IF InclusionFlag(cfg) THEN r.nexus_sales + r.marketplace_sales ELSE r.nexus_sales

RECURSIVE RangeSum(_, _, _)
\* series[lo] + ... + series[hi]
RangeSum(series, lo, hi) ==
    IF lo > hi THEN 0
    ELSE IF lo = hi THEN series[lo]
    ELSE LET mid == (lo + hi) \div 2
         IN  RangeSum(series, lo, mid) + RangeSum(series, mid + 1, hi)

\* WindowStart with the left end of the window closed: a 366-day window.
WindowStart_Closed(dates, i) ==
    1 + Cardinality({j \in 1..i : dates[j] < dates[i] - WindowDays})

\* The first row of the "365D" window that ends at row i (closed on the right,
\* open on the left): the first row dated later than dates[i] - 365 days.
WindowStart(dates, i) ==
    1 + Cardinality({j \in 1..i : dates[j] <= dates[i] - WindowDays})

\* An expanding sum in place of the rolling one: every row up to row i.
Rolling_Expanding(dates, series, i) == RangeSum(series, 1, i)

\* series.rolling("365D", min_periods=1).sum() at row i
Rolling(dates, series, i) == RangeSum(series, WindowStart(dates, i), i)

RECURSIVE FirstBreachIn(_, _, _, _, _)
\* The first row of lo..hi whose rolling sum is >= threshold, 0 when none is.
FirstBreachIn(dates, series, threshold, lo, hi) ==
    IF lo > hi THEN 0
    ELSE IF lo = hi THEN (IF Rolling(dates, series, lo) >= threshold THEN lo ELSE 0)
    ELSE LET mid == (lo + hi) \div 2
             left == FirstBreachIn(dates, series, threshold, lo, mid)
         IN  IF left # 0 THEN left
             ELSE FirstBreachIn(dates, series, threshold, mid + 1, hi)

\* FirstBreach with the mask rolling == threshold.
FirstBreach_Exact(dates, series, threshold) ==
    LET hits == {i \in 1..Len(dates) : Rolling(dates, series, i) = threshold}
    IN  IF hits = {} THEN 0 ELSE CHOOSE i \in hits : \A j \in hits : i <= j

\* FirstBreach with the mask rolling > threshold.
FirstBreach_Strict(dates, series, threshold) ==
    FirstBreachIn(dates, series, threshold + 1, 1, Len(dates))

\* mask = rolling >= threshold; mask.idxmax() when mask.any(), as a row number;
\* 0 when no row of the mask is True.
FirstBreach(dates, series, threshold) ==
    FirstBreachIn(dates, series, threshold, 1, Len(dates))

\* calculate_rolling_12m reporting the threshold that was crossed as the
\* breach amount.
calculate_rolling_12m_ThresholdAmount(state, data, cfg) ==
    LET sorted == SortValues(data)
        n == Len(sorted)
        dates == [i \in 1..n |-> sorted[i].date]
        threshold_sales == [i \in 1..n |-> ThresholdSales(sorted[i], cfg)]
        transaction_count == [i \in 1..n |-> sorted[i].transaction_count]
        breach == NexusBreachResult(state, FALSE, Some("rolling_12m"))
        sfirst == FirstBreach(dates, threshold_sales, cfg.sales_threshold[1])
        tfirst == FirstBreach(dates, transaction_count, cfg.transaction_threshold[1])
    IN  IF Truthy(cfg.sales_threshold) /\ sfirst # 0
        THEN Breach(state, "rolling_12m", "sales", dates[sfirst], cfg.sales_threshold[1])
        ELSE IF Truthy(cfg.transaction_threshold) /\ tfirst # 0
        THEN Breach(state, "rolling_12m", "transactions", dates[tfirst],
                    cfg.transaction_threshold[1])
        ELSE breach

\* calculate_rolling_12m with the transaction threshold checked first.
calculate_rolling_12m_TransFirst(state, data, cfg) ==
    LET sorted == SortValues(data)
        n == Len(sorted)
        dates == [i \in 1..n |-> sorted[i].date]
        threshold_sales == [i \in 1..n |-> ThresholdSales(sorted[i], cfg)]
        transaction_count == [i \in 1..n |-> sorted[i].transaction_count]
        breach == NexusBreachResult(state, FALSE, Some("rolling_12m"))
        sfirst == FirstBreach(dates, threshold_sales, cfg.sales_threshold[1])
        tfirst == FirstBreach(dates, transaction_count, cfg.transaction_threshold[1])
    IN  IF Truthy(cfg.transaction_threshold) /\ tfirst # 0
        THEN Breach(state, "rolling_12m", "transactions", dates[tfirst],
                    Rolling(dates, transaction_count, tfirst))
        ELSE IF Truthy(cfg.sales_threshold) /\ sfirst # 0
        THEN Breach(state, "rolling_12m", "sales", dates[sfirst],
                    Rolling(dates, threshold_sales, sfirst))
        ELSE breach

calculate_rolling_12m(state, data, cfg) ==
    LET sorted == SortValues(data)
        n == Len(sorted)
        dates == [i \in 1..n |-> sorted[i].date]
        threshold_sales == [i \in 1..n |-> ThresholdSales(sorted[i], cfg)]
        transaction_count == [i \in 1..n |-> sorted[i].transaction_count]
        breach == NexusBreachResult(state, FALSE, Some("rolling_12m"))
        sfirst == FirstBreach(dates, threshold_sales, cfg.sales_threshold[1])
        tfirst == FirstBreach(dates, transaction_count, cfg.transaction_threshold[1])
    IN  IF Truthy(cfg.sales_threshold) /\ sfirst # 0
        THEN Breach(state, "rolling_12m", "sales", dates[sfirst],
                    Rolling(dates, threshold_sales, sfirst))
        ELSE IF Truthy(cfg.transaction_threshold) /\ tfirst # 0
        THEN Breach(state, "rolling_12m", "transactions", dates[tfirst],
                    Rolling(dates, transaction_count, tfirst))
        ELSE breach

-----------------------------------------------------------------------------
(* Calendar previous / current year rule                                   *)

RECURSIVE SumRange(_, _, _, _)
\* Sum of val[r] over the rows, all dated within lo..hi.
SumRange(val, rows, lo, hi) ==
    IF rows = {} THEN 0
    ELSE IF lo >= hi
    THEN LET r == CHOOSE x \in rows : TRUE
         IN  val[r] + SumRange(val, rows \ {r}, lo, hi)
    ELSE LET mid == (lo + hi) \div 2
         IN  SumRange(val, {r \in rows : r.date <= mid}, lo, mid)
                + SumRange(val, {r \in rows : r.date > mid}, mid + 1, hi)

\* Column sum: val[r] added over a set of rows.
SumOf(val, rows) ==
    IF rows = {} THEN 0 ELSE SumRange(val, rows, MinDate(rows), MaxDate(rows))

\* The totals of a year with those of the previous year added to them.
Annual_PrevCurr(data, cfg, year) ==
    LET rows == {r \in data : r.year = year \/ r.year = year - 1}
        nexus_sales == SumOf([r \in rows |-> r.nexus_sales], rows)
        marketplace_sales == SumOf([r \in rows |-> r.marketplace_sales], rows)
    IN  [threshold_sales |-> IF InclusionFlag(cfg) THEN nexus_sales + marketplace_sales
                             ELSE nexus_sales,
         transaction_count |-> SumOf([r \in rows |-> r.transaction_count], rows)]

\* data.groupby("year").agg(sum), one year's row, with its threshold_sales column
Annual(data, cfg, year) ==
    LET rows == {r \in data : r.year = year}
        nexus_sales == SumOf([r \in rows |-> r.nexus_sales], rows)
        marketplace_sales == SumOf([r \in rows |-> r.marketplace_sales], rows)
    IN  [threshold_sales |-> IF InclusionFlag(cfg) THEN nexus_sales + marketplace_sales
                             ELSE nexus_sales,
         transaction_count |-> SumOf([r \in rows |-> r.transaction_count], rows)]

RECURSIVE ScanYears(_, _, _, _)
\* for year in annual.index: the years still to scan, in ascending order.
ScanYears(state, data, cfg, years) ==
    IF years = {} THEN NexusBreachResult(state, FALSE, Some("calendar_prev_curr"))
    ELSE LET year == CHOOSE y \in years : \A z \in years : y <= z
             annual == Annual(data, cfg, year)
         IN  IF Truthy(cfg.sales_threshold)
                /\ annual.threshold_sales >= cfg.sales_threshold[1]
             THEN Breach(state, "calendar_prev_curr", "sales", Jan1(year),
                         annual.threshold_sales)
             ELSE IF Truthy(cfg.transaction_threshold)
                     /\ annual.transaction_count >= cfg.transaction_threshold[1]
             THEN Breach(state, "calendar_prev_curr", "transactions", Jan1(year),
                         annual.transaction_count)
             ELSE ScanYears(state, data, cfg, years \ {year})

RECURSIVE ScanYears_TransFirst(_, _, _, _)
\* ScanYears with the transaction threshold checked before the sales threshold.
ScanYears_TransFirst(state, data, cfg, years) ==
    IF years = {} THEN NexusBreachResult(state, FALSE, Some("calendar_prev_curr"))
    ELSE LET year == CHOOSE y \in years : \A z \in years : y <= z
             annual == Annual(data, cfg, year)
         IN  IF Truthy(cfg.transaction_threshold)
                /\ annual.transaction_count >= cfg.transaction_threshold[1]
             THEN Breach(state, "calendar_prev_curr", "transactions", Jan1(year),
                         annual.transaction_count)
             ELSE IF Truthy(cfg.sales_threshold)
                     /\ annual.threshold_sales >= cfg.sales_threshold[1]
             THEN Breach(state, "calendar_prev_curr", "sales", Jan1(year),
                         annual.threshold_sales)
             ELSE ScanYears_TransFirst(state, data, cfg, years \ {year})

calculate_calendar_prev_curr_TransFirst(state, data, cfg) ==
    ScanYears_TransFirst(state, data, cfg, {r.year : r \in data})

\* The sales threshold checked over all the years before any year's
\* transaction threshold.
calculate_calendar_prev_curr_SalesAllYears(state, data, cfg) ==
    LET years == {r.year : r \in data}
        salesYears == {y \in years : /\ Truthy(cfg.sales_threshold)
                                     /\ Annual(data, cfg, y).threshold_sales
                                           >= cfg.sales_threshold[1]}
        first == CHOOSE y \in salesYears : \A z \in salesYears : y <= z
    IN  IF salesYears # {}
        THEN Breach(state, "calendar_prev_curr", "sales", Jan1(first),
                    Annual(data, cfg, first).threshold_sales)
        ELSE ScanYears(state, data, cfg, years)

\* The breach dated at the first record of the breaching year.
calculate_calendar_prev_curr_FirstRecord(state, data, cfg) ==
    LET b == ScanYears(state, data, cfg, {r.year : r \in data})
    IN  IF b.has_nexus
        THEN [b EXCEPT !.breach_date =
                 Some(MinDate({r \in data : r.year = YearOf(b.breach_date[1])}))]
        ELSE b

calculate_calendar_prev_curr(state, data, cfg) ==
    ScanYears(state, data, cfg, {r.year : r \in data})

-----------------------------------------------------------------------------
(* Public entry points                                                     *)

\* analyze_state evaluating every configured state under the rule of the
\* first state code of the rule table.
analyze_state_FirstRule(cfgs, state, sales) ==
    IF state \notin DOMAIN cfgs THEN NexusBreachResult(state, FALSE, None)
    ELSE LET first == CHOOSE k \in DOMAIN cfgs : \A j \in DOMAIN cfgs : ~StateLess(j, k)
             state_config == cfgs[first]
             state_data == StateData(state, sales)
             lookback_rule == state_config.lookback_rule
         IN  IF state_data = {} THEN NexusBreachResult(state, FALSE, None)
             ELSE IF lookback_rule = Some("rolling_12m")
             THEN calculate_rolling_12m(state, state_data, state_config)
             ELSE IF lookback_rule = Some("calendar_prev_curr")
             THEN calculate_calendar_prev_curr(state, state_data, state_config)
             ELSE NexusBreachResult(state, FALSE, lookback_rule)

\* analyze_state with the rule's lookback_rule echoed when the state has no rows.
analyze_state_EchoRule(cfgs, state, sales) ==
    IF state \notin DOMAIN cfgs THEN NexusBreachResult(state, FALSE, None)
    ELSE LET state_config == cfgs[state]
             state_data == StateData(state, sales)
             lookback_rule == state_config.lookback_rule
         IN  IF state_data = {} THEN NexusBreachResult(state, FALSE, lookback_rule)
             ELSE IF lookback_rule = Some("rolling_12m")
             THEN calculate_rolling_12m(state, state_data, state_config)
             ELSE IF lookback_rule = Some("calendar_prev_curr")
             THEN calculate_calendar_prev_curr(state, state_data, state_config)
             ELSE NexusBreachResult(state, FALSE, lookback_rule)

\* analyze_state with every rule other than calendar_prev_curr evaluated as
\* rolling_12m.
analyze_state_RollingFallback(cfgs, state, sales) ==
    IF state \notin DOMAIN cfgs THEN NexusBreachResult(state, FALSE, None)
    ELSE LET state_config == cfgs[state]
             state_data == StateData(state, sales)
             lookback_rule == state_config.lookback_rule
         IN  IF state_data = {} THEN NexusBreachResult(state, FALSE, None)
             ELSE IF lookback_rule = Some("calendar_prev_curr")
             THEN calculate_calendar_prev_curr(state, state_data, state_config)
             ELSE calculate_rolling_12m(state, state_data, state_config)

\* analyze_state with a state that has no rule evaluated under a default
\* rolling_12m rule with the sales threshold of the tests.
analyze_state_DefaultRule(cfgs, state, sales) ==
    IF state \notin DOMAIN cfgs
    THEN IF StateData(state, sales) = {} THEN NexusBreachResult(state, FALSE, None)
         ELSE calculate_rolling_12m(state, StateData(state, sales),
                  [lookback_rule |-> Some("rolling_12m"), sales_threshold |-> Some(500000),
                   transaction_threshold |-> None,
                   marketplace_threshold_inclusion |-> None])
    ELSE LET state_config == cfgs[state]
             state_data == StateData(state, sales)
             lookback_rule == state_config.lookback_rule
         IN  IF state_data = {} THEN NexusBreachResult(state, FALSE, None)
             ELSE IF lookback_rule = Some("rolling_12m")
             THEN calculate_rolling_12m(state, state_data, state_config)
             ELSE IF lookback_rule = Some("calendar_prev_curr")
             THEN calculate_calendar_prev_curr(state, state_data, state_config)
             ELSE NexusBreachResult(state, FALSE, lookback_rule)

analyze_state(cfgs, state, sales) ==
    IF state \notin DOMAIN cfgs THEN NexusBreachResult(state, FALSE, None)
    ELSE LET state_config == cfgs[state]
             state_data == StateData(state, sales)
             lookback_rule == state_config.lookback_rule
         IN  IF state_data = {} THEN NexusBreachResult(state, FALSE, None)
             ELSE IF lookback_rule = Some("rolling_12m")
             THEN calculate_rolling_12m(state, state_data, state_config)
             ELSE IF lookback_rule = Some("calendar_prev_curr")
             THEN calculate_calendar_prev_curr(state, state_data, state_config)
             ELSE NexusBreachResult(state, FALSE, lookback_rule)

\* The sort key (r.has_nexus, r.state): the states without nexus first.
KeyLess_NoNexusFirst(a, b) ==
    \/ ~a.has_nexus /\ b.has_nexus
    \/ a.has_nexus = b.has_nexus /\ StateLess(a.state, b.state)

\* The sort key (not r.has_nexus,) alone: results with equal has_nexus tie.
KeyLess_HasNexusOnly(a, b) == a.has_nexus /\ ~b.has_nexus

\* The sort key (not r.has_nexus, r.state), compared as Python compares tuples.
KeyLess(a, b) ==
    \/ a.has_nexus /\ ~b.has_nexus
    \/ a.has_nexus = b.has_nexus /\ StateLess(a.state, b.state)

RECURSIVE Sorted(_)
\* sorted(results, key=...): stable, an element goes after those not greater.
Sorted(seq) ==
    IF seq = <<>> THEN <<>>
    ELSE LET head == Sorted(SubSeq(seq, 1, Len(seq) - 1))
             r == seq[Len(seq)]
             k == Cardinality({i \in 1..Len(head) : ~KeyLess(r, head[i])})
         IN  SubSeq(head, 1, k) \o <<r>> \o SubSeq(head, k + 1, Len(head))

\* The loop run over the states found in the data instead of the rule table.
CollectResults_OverData(cfgs, keys, sales) ==
    LET states_in_data == {r.state : r \in sales}
        pos(s) == 1 + Cardinality({t \in states_in_data : StateLess(t, s)})
    IN  [p \in 1..Cardinality(states_in_data) |->
            analyze_state(cfgs, CHOOSE s \in states_in_data : pos(s) = p, sales)]

\* The loop with analyze_state called for every state of the rule table.
CollectResults_AlwaysAnalyze(cfgs, keys, sales) ==
    [i \in 1..Len(keys) |-> analyze_state(cfgs, keys[i], sales)]

\* The loop of analyze_all_states, over the rule table in its key order.
CollectResults(cfgs, keys, sales) ==
    LET states_in_data == {r.state : r \in sales}
    IN  [i \in 1..Len(keys) |->
            IF keys[i] \in states_in_data
            THEN analyze_state(cfgs, keys[i], sales)
            ELSE NexusBreachResult(keys[i], FALSE, cfgs[keys[i]].lookback_rule)]

analyze_all_states(cfgs, keys, sales) == Sorted(CollectResults(cfgs, keys, sales))

-----------------------------------------------------------------------------
(* Data cleaner (src/src/data/cleaner.py)                                  *)
(*                                                                         *)
(* A raw frame is a sequence of rows with the five input columns.  A raw   *)
(* date is the <<year, month, day>> its text spells, a raw state is the    *)
(* sequence of its characters, and a raw number is None when the cell is   *)
(* empty or not numeric.  Years are BaseYear or later.                     *)

\* The missing date pd.to_datetime(..., errors="coerce") yields.
NaT == None

DaysInMonth(y, m) ==
    IF m = 2 THEN (IF IsLeap(y) THEN 29 ELSE 28)
    ELSE IF m \in {4, 6, 9, 11} THEN 30 ELSE 31

RECURSIVE DaysBeforeMonth(_, _)
DaysBeforeMonth(y, m) ==
    IF m <= 1 THEN 0 ELSE DaysInMonth(y, m - 1) + DaysBeforeMonth(y, m - 1)

\* A lenient parser: a day past the end of its month rolls over into the
\* next month instead of becoming NaT.
to_datetime_Rollover(t) ==
    Some(Jan1(t[1]) + DaysBeforeMonth(t[1], t[2]) + t[3] - 1)

\* pd.to_datetime(text, errors="coerce"): the day number of a date that
\* exists, NaT for any other text.
to_datetime(t) ==
    IF t[2] \in 1..12 /\ t[3] \in 1..DaysInMonth(t[1], t[2])
    THEN Some(Jan1(t[1]) + DaysBeforeMonth(t[1], t[2]) + t[3] - 1)
    ELSE NaT

\* date.dt.to_period("M"), as <<year, month>>
MonthOf(d) ==
    LET y == YearOf(d)
        m == CHOOSE k \in 1..12 :
                 /\ Jan1(y) + DaysBeforeMonth(y, k) <= d
                 /\ d < Jan1(y) + DaysBeforeMonth(y, k) + DaysInMonth(y, k)
    IN  <<y, m>>

\* pd.to_numeric(x, errors="coerce").fillna(0)
to_numeric(o) == IF o = None THEN 0 ELSE o[1]

\* Series.clip(lower=0)
clip(x) == IF x < 0 THEN 0 ELSE x

LowerCase == <<"a", "c", "n", "y">>

UpperCase == <<"A", "C", "N", "Y">>

\* str.upper() on one character
upper(ch) ==
    IF \E i \in 1..Len(LowerCase) : LowerCase[i] = ch
    THEN UpperCase[CHOOSE i \in 1..Len(LowerCase) : LowerCase[i] = ch]
    ELSE ch

RECURSIVE lstrip(_)
lstrip(cs) == IF cs # <<>> /\ cs[1] = " " THEN lstrip(Tail(cs)) ELSE cs

RECURSIVE rstrip(_)
rstrip(cs) ==
    IF cs # <<>> /\ cs[Len(cs)] = " " THEN rstrip(SubSeq(cs, 1, Len(cs) - 1)) ELSE cs

\* str.strip()
strip(cs) == rstrip(lstrip(cs))

RECURSIVE Join(_)
\* The string of a sequence of characters.
Join(cs) == IF cs = <<>> THEN "" ELSE cs[1] \o Join(Tail(cs))

\* clean_df["state"].astype(str).str.upper().str.strip()
normalize_state(cs) == Join(strip([i \in 1..Len(cs) |-> upper(cs[i])]))

\* Step 2: the date column parsed, the rows whose date is NaT dropped.
DropInvalidDates(df) ==
    LET parsed == [i \in 1..Len(df) |-> [df[i] EXCEPT !.date = to_datetime(df[i].date)]]
        kept == SelectSeq(parsed, LAMBDA r : r.date # NaT)
    IN  [i \in 1..Len(kept) |-> [kept[i] EXCEPT !.date = kept[i].date[1]]]

\* Steps 3 to 5 on one row: numeric coercion, nexus_sales, state code.
Coerce(row) ==
    LET gross_sales == to_numeric(row.gross_sales)
    IN  [date |-> row.date,
         state |-> normalize_state(row.state),
         gross_sales |-> gross_sales,
         nexus_sales |-> clip(gross_sales),
         transaction_count |-> to_numeric(row.transaction_count),
         marketplace_sales |-> to_numeric(row.marketplace_sales)]

\* df.duplicated(subset=["date", "state"]).any()
duplicated_any(df) ==
    \E i, j \in 1..Len(df) :
        i < j /\ df[i].date = df[j].date /\ df[i].state = df[j].state

RECURSIVE SumIdx(_, _)
\* The sum of f[i] over the indices i of S.
SumIdx(f, S) ==
    IF S = {} THEN 0
    ELSE LET i == CHOOSE k \in S : TRUE
         IN  f[i] + SumIdx(f, S \ {i})

\* df.groupby(["date", "state"], as_index=False).agg(sum of the four
\* columns): one row per key, in the order of the keys.
GroupSums(df) ==
    LET n == Len(df)
        key(i) == <<df[i].date, df[i].state>>
        keys == {key(i) : i \in 1..n}
        group(k) == {i \in 1..n : key(i) = k}
        before(k1, k2) ==
            k1[1] < k2[1] \/ (k1[1] = k2[1] /\ StateLess(k1[2], k2[2]))
        pos(k) == 1 + Cardinality({k2 \in keys : before(k2, k)})
        row(k) ==
            [date |-> k[1], state |-> k[2],
             gross_sales |-> SumIdx([i \in group(k) |-> df[i].gross_sales], group(k)),
             nexus_sales |-> SumIdx([i \in group(k) |-> df[i].nexus_sales], group(k)),
             transaction_count |->
                 SumIdx([i \in group(k) |-> df[i].transaction_count], group(k)),
             marketplace_sales |->
                 SumIdx([i \in group(k) |-> df[i].marketplace_sales], group(k))]
    IN  [p \in 1..Cardinality(keys) |-> row(CHOOSE k \in keys : pos(k) = p)]

\* All rows of a state merged into one row dated the state's earliest date.
aggregate_duplicates_ByState(df) ==
    LET n == Len(df)
        states == {df[i].state : i \in 1..n}
        group(s) == {i \in 1..n : df[i].state = s}
        first(s) == CHOOSE d \in {df[i].date : i \in group(s)} :
                        \A i \in group(s) : d <= df[i].date
        pos(s) == 1 + Cardinality({t \in states : StateLess(t, s)})
        row(s) ==
            [date |-> first(s), state |-> s,
             gross_sales |-> SumIdx([i \in group(s) |-> df[i].gross_sales], group(s)),
             nexus_sales |-> SumIdx([i \in group(s) |-> df[i].nexus_sales], group(s)),
             transaction_count |->
                 SumIdx([i \in group(s) |-> df[i].transaction_count], group(s)),
             marketplace_sales |->
                 SumIdx([i \in group(s) |-> df[i].marketplace_sales], group(s))]
    IN  IF duplicated_any(df)
        THEN [p \in 1..Cardinality(states) |-> row(CHOOSE s \in states : pos(s) = p)]
        ELSE df

\* The first row of every (date, state) key kept, the others dropped.
aggregate_duplicates_KeepFirst(df) ==
    LET kept == {i \in 1..Len(df) :
                    ~\E j \in 1..(i - 1) :
                        df[j].date = df[i].date /\ df[j].state = df[i].state}
    IN  [p \in 1..Cardinality(kept) |->
            df[CHOOSE i \in kept : Cardinality({j \in kept : j < i}) = p - 1]]

\* Duplicates merged with nexus_sales clipped from the merged gross_sales.
aggregate_duplicates_ClipAfter(df) ==
    IF duplicated_any(df)
    THEN LET g == GroupSums(df)
         IN  [i \in 1..Len(g) |-> [g[i] EXCEPT !.nexus_sales = clip(g[i].gross_sales)]]
    ELSE df

\* DataCleaner._aggregate_duplicates
aggregate_duplicates(df) == IF duplicated_any(df) THEN GroupSums(df) ELSE df

\* df.sort_values(["state", "date"]).reset_index(drop=True)
sort_values(df) ==
    LET n == Len(df)
        before(i, j) ==
            \/ StateLess(df[i].state, df[j].state)
            \/ df[i].state = df[j].state /\ df[i].date < df[j].date
            \/ df[i].state = df[j].state /\ df[i].date = df[j].date /\ i < j
        pos(i) == 1 + Cardinality({j \in 1..n : before(j, i)})
    IN  [p \in 1..n |-> df[CHOOSE i \in 1..n : pos(i) = p]]

\* DataCleaner.clean
clean(df) ==
    LET dated == DropInvalidDates(df)
        coerced == [i \in 1..Len(dated) |-> Coerce(dated[i])]
        merged == aggregate_duplicates(coerced)
        sorted == sort_values(merged)
    IN  [i \in 1..Len(sorted) |->
            [date |-> sorted[i].date, state |-> sorted[i].state,
             gross_sales |-> sorted[i].gross_sales,
             nexus_sales |-> sorted[i].nexus_sales,
             transaction_count |-> sorted[i].transaction_count,
             marketplace_sales |-> sorted[i].marketplace_sales,
             year |-> YearOf(sorted[i].date), month |-> MonthOf(sorted[i].date)]]

-----------------------------------------------------------------------------
(* Inputs: rule tables and cleaned sales rows                              *)

MaxRows == 3

SalesT == 3

TransN == 2

\* Record dates: January 1 and 2 of BaseYear and of the next year, so that
\* two dates can be 364, 365 or 366 days apart.
Days == {0, 1, 365, 366}

RowVals ==
    {[nexus_sales |-> 2, marketplace_sales |-> 1, transaction_count |-> 1],
     [nexus_sales |-> 0, marketplace_sales |-> 0, transaction_count |-> 2]}

\* A cleaned row; the year column is the year of its date.
Row(state, date, v) ==
    [state |-> state, date |-> date, nexus_sales |-> v.nexus_sales,
     marketplace_sales |-> v.marketplace_sales,
     transaction_count |-> v.transaction_count, year |-> YearOf(date)]

\* The row sets of one state: at most one row per date, at most MaxRows rows.
StateRows(s) ==
    UNION {{{Row(s, d, f[d]) : d \in D} : f \in [D -> RowVals]} :
           D \in {E \in SUBSET Days : Cardinality(E) <= MaxRows}}

Lookbacks == {Some("rolling_12m"), Some("calendar_prev_curr"), Some("rolling_4q")}

Rules ==
    [lookback_rule : Lookbacks,
     sales_threshold : {None, Some(0), Some(SalesT)},
     transaction_threshold : {None, Some(0), Some(TransN)},
     marketplace_threshold_inclusion : {Some(TRUE), Some(FALSE)}]

\* All orders of a set of keys, as sequences without repetition.
Orders(S) ==
    {q \in [1..Cardinality(S) -> S] : \A i, j \in 1..Cardinality(S) : q[i] = q[j] => i = j}

\* The states of the single-rule inputs: the two of the tests' rule table.
EvalStates == {"CA", "NY"}

\* One rule (or none) and the rows of one state (or none).
InitEval ==
    /\ \E C \in {D \in SUBSET EvalStates : Cardinality(D) <= 1} :
          /\ config \in [C -> Rules]
          /\ config_keys \in Orders(C)
    /\ \E s \in EvalStates : sales_data \in StateRows(s)

\* Rule tables over several states, a few rows each.
BatchRules ==
    {[lookback_rule |-> Some("rolling_12m"), sales_threshold |-> Some(SalesT),
      transaction_threshold |-> None, marketplace_threshold_inclusion |-> None],
     [lookback_rule |-> Some("calendar_prev_curr"), sales_threshold |-> None,
      transaction_threshold |-> Some(TransN), marketplace_threshold_inclusion |-> Some(FALSE)],
     [lookback_rule |-> Some("rolling_4q"), sales_threshold |-> Some(SalesT),
      transaction_threshold |-> Some(TransN), marketplace_threshold_inclusion |-> Some(TRUE)]}

BatchRows(s) ==
    {{}} \cup {{Row(s, 1, v)} : v \in RowVals}

InitBatch ==
    /\ \E C \in SUBSET States :
          /\ config \in [C -> BatchRules]
          /\ config_keys \in Orders(C)
    /\ \E f \in [States -> UNION {BatchRows(s) : s \in States}] :
          /\ \A s \in States : f[s] \in BatchRows(s)
          /\ sales_data = UNION {f[s] : s \in States}

\* The rule table of tests/test_calculator.py.
SampleConfig ==
    [s \in {"CA", "NY"} |->
        IF s = "CA"
        THEN [lookback_rule |-> Some("rolling_12m"), sales_threshold |-> Some(500000),
              transaction_threshold |-> None,
              marketplace_threshold_inclusion |-> Some(FALSE)]
        ELSE [lookback_rule |-> Some("rolling_12m"), sales_threshold |-> Some(500000),
              transaction_threshold |-> Some(100),
              marketplace_threshold_inclusion |-> Some(TRUE)]]

\* The daily series of the tests: the same row on n consecutive days.
DailySeries ==
    {[n |-> 365, v |-> [nexus_sales |-> 2500, marketplace_sales |-> 0, transaction_count |-> 1]],
     [n |-> 365, v |-> [nexus_sales |-> 1500, marketplace_sales |-> 0, transaction_count |-> 1]],
     [n |-> 365, v |-> [nexus_sales |-> 1000, marketplace_sales |-> 200, transaction_count |-> 1]],
     [n |-> 150, v |-> [nexus_sales |-> 100, marketplace_sales |-> 0, transaction_count |-> 1]]}

\* One state with a row on every day from the base date on.
InitDaily ==
    /\ config = SampleConfig
    /\ config_keys = <<"CA", "NY">>
    /\ \E s \in DOMAIN SampleConfig, c \in DailySeries :
          sales_data = {Row(s, d, c.v) : d \in 0..(c.n - 1)}

\* The marketplace example: 400000 of direct and 150000 of marketplace sales
\* in n equal rows 30 days apart, from a day early or late in BaseYear.
MarketplaceSeries ==
    {[n |-> n, first |-> d,
      v |-> [nexus_sales |-> 400000 \div n, marketplace_sales |-> 150000 \div n,
             transaction_count |-> 1]] : n \in {1, 2, 4}, d \in {45, 300}}

MarketplaceRules ==
    [lookback_rule : {Some("rolling_12m"), Some("calendar_prev_curr")},
     sales_threshold : {Some(500000)},
     transaction_threshold : {None},
     marketplace_threshold_inclusion : {None, Some(TRUE), Some(FALSE)}]

\* One state under a 500000 sales threshold with the marketplace example's rows.
InitMarketplace ==
    /\ config \in [{"CA"} -> MarketplaceRules]
    /\ config_keys = <<"CA">>
    /\ \E c \in MarketplaceSeries :
          sales_data = {Row("CA", c.first + 30 * i, c.v) : i \in 0..(c.n - 1)}

Init ==
    /\ InitEval \/ InitBatch \/ InitDaily \/ InitMarketplace
    /\ result = None
    /\ results = None
    /\ call_log = None
    /\ raw_df = <<>>
    /\ clean_df = None
    /\ yaml_data = None
    /\ nexus_config = None
    /\ raised = None

\* Calls recorded in call_log before the calculator is left alone.
MaxCalls == 2

\* Two configured states, a few rows of one and at most one row of the other,
\* with every call recorded: call_log starts as the empty record of calls.
InitRepeat ==
    /\ config \in [EvalStates -> BatchRules]
    /\ config_keys \in Orders(EvalStates)
    /\ \E ca \in StateRows("CA"), ny \in BatchRows("NY") : sales_data = ca \cup ny
    /\ result = None
    /\ results = None
    /\ call_log = Some(<<>>)
    /\ raw_df = <<>>
    /\ clean_df = None
    /\ yaml_data = None
    /\ nexus_config = None
    /\ raised = None

\* Rows of a raw frame.
MaxRaw == 3

\* January 1 and 2 of the tests' year.
RawDates == {<<2023, 1, 1>>, <<2023, 1, 2>>}

\* Date texts that are not dates: a day that does not exist.
BadDates == {<<2023, 2, 30>>}

RawStates == {<<"c", "a">>, <<" ", "C", "A", " ">>, <<"N", "Y">>}

\* A sale and a return (negative amounts).
RawVals ==
    {[gross_sales |-> Some(3), transaction_count |-> Some(1), marketplace_sales |-> Some(1)],
     [gross_sales |-> Some(-2), transaction_count |-> Some(-1),
      marketplace_sales |-> Some(-1)]}

\* A row whose numeric cells are empty or not numeric.
BlankVals ==
    {[gross_sales |-> None, transaction_count |-> None, marketplace_sales |-> None]}

RawRow(d, s, v) ==
    [date |-> d, state |-> s, gross_sales |-> v.gross_sales,
     transaction_count |-> v.transaction_count,
     marketplace_sales |-> v.marketplace_sales]

\* The sales and returns of every state spelling and date, the blank rows of
\* one spelling, and sales whose date is invalid.
RawRows ==
    {RawRow(d, s, v) : d \in RawDates, s \in RawStates, v \in RawVals}
        \cup {RawRow(d, <<"c", "a">>, v) : d \in RawDates, v \in BlankVals}
        \cup {RawRow(d, s, v) : d \in BadDates, s \in {<<"c", "a">>, <<"N", "Y">>},
                               v \in {w \in RawVals : w.gross_sales = Some(3)}}

\* The frame of test_cleaner_aggregates_duplicates: three CA rows, two of them
\* on the same date, the marketplace cells empty.
TestFrames ==
    {<<[date |-> <<2023, 1, 1>>, state |-> <<"C", "A">>, gross_sales |-> Some(1000),
        transaction_count |-> Some(1), marketplace_sales |-> None],
       [date |-> <<2023, 1, 1>>, state |-> <<"C", "A">>, gross_sales |-> Some(2000),
        transaction_count |-> Some(2), marketplace_sales |-> None],
       [date |-> <<2023, 1, 2>>, state |-> <<"C", "A">>, gross_sales |-> Some(3000),
        transaction_count |-> Some(3), marketplace_sales |-> None]>>}

\* A raw frame of at most MaxRaw rows, not cleaned yet; no calculator.
InitClean ==
    /\ raw_df \in UNION {[1..n -> RawRows] : n \in 0..MaxRaw} \cup TestFrames
    /\ clean_df = None
    /\ config = [s \in {} |-> None]
    /\ config_keys = <<>>
    /\ sales_data = {}
    /\ result = None
    /\ results = None
    /\ call_log = None
    /\ yaml_data = None
    /\ nexus_config = None
    /\ raised = None

-----------------------------------------------------------------------------
(* Operations                                                              *)

\* A call can be made: calls are not recorded, or fewer than MaxCalls were.
CanCall == IF call_log = None THEN TRUE ELSE Len(call_log[1]) < MaxCalls

\* call_log after a call: the call, the rule table and record set the
\* calculator held when it was made, and what it returned.
Logged(call, returned) ==
    IF call_log = None THEN None
    ELSE Some(Append(call_log[1],
                     [call |-> call, config |-> config, config_keys |-> config_keys,
                      sales_data |-> sales_data, returned |-> returned]))

\* analyze_state reading its thresholds with config.pop in place of config.get:
\* the call removes sales_threshold from the state's rule.
AnalyzeState_PopThreshold(state) ==
    /\ CanCall
    /\ result' = Some(analyze_state(config, state, sales_data))
    /\ results' = None
    /\ call_log' = Logged(<<"analyze_state", state>>, result'[1])
    /\ config' = [s \in DOMAIN config |->
                     IF s = state THEN [config[s] EXCEPT !.sales_threshold = None]
                     ELSE config[s]]
    /\ UNCHANGED <<config_keys, sales_data, raw_df, clean_df, yaml_data, nexus_config,
                   raised>>

AnalyzeState(state) ==
    /\ CanCall
    /\ result' = Some(analyze_state(config, state, sales_data))
    /\ results' = None
    /\ call_log' = Logged(<<"analyze_state", state>>, result'[1])
    /\ UNCHANGED <<config, config_keys, sales_data, raw_df, clean_df, yaml_data,
                   nexus_config, raised>>

AnalyzeAllStates ==
    /\ CanCall
    /\ results' = Some(analyze_all_states(config, config_keys, sales_data))
    /\ result' = None
    /\ call_log' = Logged(<<"analyze_all_states">>, results'[1])
    /\ UNCHANGED <<config, config_keys, sales_data, raw_df, clean_df, yaml_data,
                   nexus_config, raised>>

Next ==
    \/ \E state \in States : AnalyzeState(state)
    \/ AnalyzeAllStates

Spec == Init /\ [][Next]_vars

\* The same calls, recorded.
SpecRepeat == InitRepeat /\ [][Next]_vars

\* clean_df = DataCleaner.clean(df)
Clean ==
    /\ clean_df' = Some(clean(raw_df))
    /\ UNCHANGED <<config, config_keys, sales_data, result, results, call_log, raw_df,
                   yaml_data, nexus_config, raised>>

NextClean == Clean

SpecClean == InitClean /\ [][NextClean]_vars

-----------------------------------------------------------------------------
(* Configuration loader                                                    *)
(*                                                                         *)
(* A parsed YAML file is a mapping from keys to entries; an entry is None  *)
(* (a key with no value) or a mapping with the keys lookback_rule,         *)
(* sales_threshold, transaction_threshold (each possibly null) and         *)
(* tax_rate (None when missing).  Tax rates are in hundredths.             *)

\* StateConfig.tax_rate: le=0.15
MaxTaxRate == 15

\* StateConfig.sales_threshold: le=10_000_000
MaxSalesThreshold == 10000000

\* StateConfig.transaction_threshold: le=10_000
MaxTransactionThreshold == 10000

\* The keys from_yaml files under metadata.
SpecialKeys == {"DEFAULT", "_metadata", "metadata"}

\* The lookback rules from_yaml keeps.
ImplementedRules == {"rolling_12m", "calendar_prev_curr"}

\* Field(..., ge=lo, le=hi) on an optional number.
InRange(o, lo, hi) == IF o = None THEN TRUE ELSE lo <= o[1] /\ o[1] <= hi

\* The validator at_least_one_threshold, for a supplied value v of a
\* threshold field, with the sales_threshold validated before it.
at_least_one_threshold(v, sales_threshold) == ~(v = None /\ sales_threshold = None)

\* StateConfig(**value) raises no ValidationError.  on_null: the installed
\* pydantic runs a field's validators on a supplied null (it does from
\* version 2 on and does not before).
Validates(value, on_null) ==
    /\ InRange(value.sales_threshold, 0, MaxSalesThreshold)
    /\ InRange(value.transaction_threshold, 0, MaxTransactionThreshold)
    /\ value.tax_rate # None
    /\ InRange(value.tax_rate, 0, MaxTaxRate)
    /\ on_null =>
          /\ at_least_one_threshold(value.sales_threshold, None)
          /\ at_least_one_threshold(value.transaction_threshold, value.sales_threshold)

\* The StateConfig object built from an entry that validates.
StateConfig(value) ==
    [sales_threshold |-> value.sales_threshold,
     transaction_threshold |-> value.transaction_threshold,
     lookback_rule |-> value.lookback_rule[1],
     marketplace_threshold_inclusion |-> TRUE,
     tax_rate |-> value.tax_rate[1]]

\* The try block of from_yaml adds the key to states: value.get does not
\* raise (the entry is a mapping), the lookback rule is implemented and
\* StateConfig(**value) validates.
Kept(value, on_null) ==
    IF value = None THEN FALSE
    ELSE IF value[1].lookback_rule = None THEN FALSE
    ELSE /\ value[1].lookback_rule[1] \in ImplementedRules
         /\ Validates(value[1], on_null)

\* from_yaml keeping every entry that validates, whatever its lookback rule.
from_yaml_AnyRule(data, on_null) ==
    LET keys == {k \in DOMAIN data :
                    /\ k \notin SpecialKeys
                    /\ data[k] # None
                    /\ data[k][1].lookback_rule # None
                    /\ Validates(data[k][1], on_null)}
    IN  [states |-> [k \in keys |-> StateConfig(data[k][1])],
         metadata |-> [k \in DOMAIN data \cap SpecialKeys |-> data[k]]]

\* NexusConfig.from_yaml on the parsed mapping: the NexusConfig it returns.
from_yaml(data, on_null) ==
    LET keys == {k \in DOMAIN data : k \notin SpecialKeys /\ Kept(data[k], on_null)}
    IN  [states |-> [k \in keys |-> StateConfig(data[k][1])],
         metadata |-> [k \in DOMAIN data \cap SpecialKeys |-> data[k]]]

\* Entries of a state key: every rule, threshold and null combination with a
\* valid tax rate, and two entries whose tax rate is missing or too high.
YamlEntries ==
    [lookback_rule : {Some("rolling_12m"), Some("calendar_prev_curr"), Some("rolling_4q")},
     sales_threshold : {None, Some(-1), Some(100000)},
     transaction_threshold : {None, Some(200)},
     tax_rate : {Some(7)}]
    \cup [lookback_rule : {Some("rolling_12m")}, sales_threshold : {Some(100000)},
          transaction_threshold : {Some(200)}, tax_rate : {None, Some(20)}]

\* The entry under a special key: a template with an implemented rule.
TemplateEntry ==
    [lookback_rule |-> Some("rolling_12m"), sales_threshold |-> Some(100000),
     transaction_threshold |-> Some(200), tax_rate |-> Some(7)]

\* A parsed YAML file over some state keys and some special keys, not loaded
\* yet, and cleaned rows of CA alone.
InitLoad ==
    /\ \E K \in SUBSET States, M \in SUBSET SpecialKeys :
          \E f \in [K -> {None} \cup {Some(e) : e \in YamlEntries}] :
              yaml_data = Some([k \in K \cup M |->
                                   IF k \in K THEN f[k] ELSE Some(TemplateEntry)])
    /\ nexus_config = None
    /\ raised = None
    /\ sales_data = {Row("CA", 0, [nexus_sales |-> 1, marketplace_sales |-> 0,
                                   transaction_count |-> 1])}
    /\ config = [s \in {} |-> None]
    /\ config_keys = <<>>
    /\ result = None
    /\ results = None
    /\ call_log = None
    /\ raw_df = <<>>
    /\ clean_df = None

\* nexus_config = NexusConfig.from_yaml(path)
FromYaml ==
    /\ nexus_config = None
    /\ \E on_null \in BOOLEAN : nexus_config' = Some(from_yaml(yaml_data[1], on_null))
    /\ UNCHANGED <<config, config_keys, sales_data, result, results, call_log, raw_df,
                   clean_df, yaml_data, raised>>

\* NexusCalculator(nexus_config.states).analyze_state(state, sales_data): the
\* rule table holds StateConfig objects, which have no get method, so the
\* call raises AttributeError once it reads the rule of a state with rows.
AnalyzeLoaded(state) ==
    /\ nexus_config # None
    /\ raised = None
    /\ IF state \notin DOMAIN nexus_config[1].states \/ StateData(state, sales_data) = {}
       THEN /\ result' = Some(NexusBreachResult(state, FALSE, None))
            /\ raised' = None
       ELSE /\ raised' = Some("AttributeError")
            /\ result' = result
    /\ UNCHANGED <<config, config_keys, sales_data, results, call_log, raw_df, clean_df,
                   yaml_data, nexus_config>>

NextLoad ==
    \/ FromYaml
    \/ \E state \in States : AnalyzeLoaded(state)

SpecLoad == InitLoad /\ [][NextLoad]_vars

-----------------------------------------------------------------------------
(* Vocabulary of the properties                                            *)

\* The rows of one state in the data.
RowsOf(s) == {r \in sales_data : r.state = s}

DatesOf(s) == {r.date : r \in RowsOf(s)}

\* The rows of state s dated within the 365 days that end at D: [D - 364, D].
InWindow(s, D) == {r \in RowsOf(s) : D - 364 <= r.date /\ r.date <= D}

\* The amount of a row that counts toward the sales threshold of state s.
Counted(r, s) ==
    IF config[s].marketplace_threshold_inclusion = Some(FALSE) THEN r.nexus_sales
    ELSE r.nexus_sales + r.marketplace_sales

TrailingSales(s, D) == SumOf([r \in InWindow(s, D) |-> Counted(r, s)], InWindow(s, D))

TrailingTrans(s, D) == SumOf([r \in InWindow(s, D) |-> r.transaction_count], InWindow(s, D))

TotalSales(s) == SumOf([r \in RowsOf(s) |-> Counted(r, s)], RowsOf(s))

Least(S) == CHOOSE d \in S : \A e \in S : d <= e

\* analyze_state has just returned for a state evaluated under the given policy.
Evaluated(rule) ==
    /\ result # None
    /\ result[1].state \in DOMAIN config
    /\ config[result[1].state].lookback_rule = Some(rule)
    /\ RowsOf(result[1].state) # {}

IsSales(r) == r.has_nexus /\ r.breach_type = Some("sales")

IsTrans(r) == r.has_nexus /\ r.breach_type = Some("transactions")

\* The rows of s are one row per day on consecutive days, each counting c > 0.
Daily(s, c) ==
    /\ c > 0
    /\ \A r \in RowsOf(s) : Counted(r, s) = c
    /\ MaxDate(RowsOf(s)) - MinDate(RowsOf(s)) = Cardinality(RowsOf(s)) - 1

-----------------------------------------------------------------------------
(* C1: under rolling_12m with a non-zero sales_threshold T, analyze_state  *)
(* reports a 'sales' breach exactly when some record date has a trailing   *)
(* 365-day sum of threshold-sales >= T; breach_date is the earliest such   *)
(* date and breach_amount the trailing sum at it.  For a constant amount c *)
(* per day on consecutive days the breach is on 0-indexed day              *)
(* ceil(T/c) - 1.                                                          *)
C1_RollingSalesBreach ==
    Evaluated("rolling_12m") /\ Truthy(config[result[1].state].sales_threshold) =>
        LET r == result[1]
            s == r.state
            T == config[s].sales_threshold[1]
            hits == {D \in DatesOf(s) : TrailingSales(s, D) >= T}
        IN  /\ IsSales(r) <=> hits # {}
            /\ hits # {} =>
                  /\ r.breach_date = Some(Least(hits))
                  /\ r.breach_amount = Some(TrailingSales(s, Least(hits)))
            /\ \A c \in {Counted(x, s) : x \in RowsOf(s)} :
                  Daily(s, c) =>
                     LET k == (T + c - 1) \div c
                     IN  /\ IsSales(r) => r.breach_date = Some(MinDate(RowsOf(s)) + k - 1)
                         /\ k <= Cardinality(RowsOf(s)) /\ k <= 365 => IsSales(r)

\* $1,500 a day for 365 days against $500,000: the breach is on day 333.
C1_Witness ==
    /\ Evaluated("rolling_12m")
    /\ Cardinality(RowsOf(result[1].state)) = 365
    /\ \A r \in RowsOf(result[1].state) : r.nexus_sales = 1500
    /\ IsSales(result[1])
    /\ result[1].breach_date = Some(333)

-----------------------------------------------------------------------------
(* C2: under rolling_12m the trailing sum at a record dated D adds exactly *)
(* the state's records dated within [D - 364, D] (D - 364 included,        *)
(* D - 365 excluded), whatever the rows and the gaps; so records whose     *)
(* total reaches the threshold while every 365-day window stays below it   *)
(* give has_nexus = false.                                                 *)
C2_WindowIsCalendarDays ==
    Evaluated("rolling_12m") =>
        LET r == result[1]
            s == r.state
            cfg == config[s]
            sorted == SortValues(StateData(s, sales_data))
            dates == [i \in 1..Len(sorted) |-> sorted[i].date]
            threshold_sales == [i \in 1..Len(sorted) |-> ThresholdSales(sorted[i], cfg)]
            transaction_count == [i \in 1..Len(sorted) |-> sorted[i].transaction_count]
        IN  /\ \A i \in 1..Len(sorted) :
                  /\ Rolling(dates, threshold_sales, i) = TrailingSales(s, dates[i])
                  /\ Rolling(dates, transaction_count, i) = TrailingTrans(s, dates[i])
            /\ ( /\ Truthy(cfg.sales_threshold)
                 /\ \A D \in DatesOf(s) : TrailingSales(s, D) < cfg.sales_threshold[1]
                 /\ Truthy(cfg.transaction_threshold) =>
                       \A D \in DatesOf(s) : TrailingTrans(s, D) < cfg.transaction_threshold[1]
               ) => ~r.has_nexus

\* Two rows 365 days apart whose total reaches the threshold: no nexus.
C2_Witness ==
    /\ Evaluated("rolling_12m")
    /\ Truthy(config[result[1].state].sales_threshold)
    /\ TotalSales(result[1].state) >= config[result[1].state].sales_threshold[1]
    /\ \E D \in DatesOf(result[1].state) : D - 365 \in DatesOf(result[1].state)
    /\ ~result[1].has_nexus

-----------------------------------------------------------------------------
(* C3: under rolling_12m with both thresholds configured, a sales breach   *)
(* on any date is the one reported, at the earliest sales-breach date,     *)
(* even when the transaction threshold was reached on an earlier date; a   *)
(* 'transactions' breach is reported only when no date reaches the sales   *)
(* threshold.                                                              *)
C3_RollingSalesPriority ==
    ( /\ Evaluated("rolling_12m")
      /\ Truthy(config[result[1].state].sales_threshold)
      /\ Truthy(config[result[1].state].transaction_threshold) ) =>
        LET r == result[1]
            s == r.state
            hits == {D \in DatesOf(s) : TrailingSales(s, D) >= config[s].sales_threshold[1]}
        IN  /\ hits # {} => IsSales(r) /\ r.breach_date = Some(Least(hits))
            /\ IsTrans(r) => hits = {}

\* A sales breach reported although the transaction count had reached its
\* threshold on an earlier date.
C3_Witness ==
    /\ Evaluated("rolling_12m")
    /\ Truthy(config[result[1].state].sales_threshold)
    /\ Truthy(config[result[1].state].transaction_threshold)
    /\ IsSales(result[1])
    /\ \E D \in DatesOf(result[1].state) :
          /\ D < result[1].breach_date[1]
          /\ TrailingTrans(result[1].state, D)
                >= config[result[1].state].transaction_threshold[1]

-----------------------------------------------------------------------------
(* Calendar-year vocabulary                                                *)

YearsOf(s) == {YearOf(r.date) : r \in RowsOf(s)}

InYear(s, y) == {r \in RowsOf(s) : YearOf(r.date) = y}

AnnualSales(s, y) == SumOf([r \in InYear(s, y) |-> Counted(r, s)], InYear(s, y))

AnnualTrans(s, y) == SumOf([r \in InYear(s, y) |-> r.transaction_count], InYear(s, y))

\* Year y's own total meets the configured sales (transaction) threshold.
SalesMet(s, y) ==
    /\ Truthy(config[s].sales_threshold)
    /\ AnnualSales(s, y) >= config[s].sales_threshold[1]

TransMet(s, y) ==
    /\ Truthy(config[s].transaction_threshold)
    /\ AnnualTrans(s, y) >= config[s].transaction_threshold[1]

\* Date d is a January 1: the day before it is in another year.
IsJan1(d) == d = 0 \/ (d > 0 /\ YearOf(d - 1) # YearOf(d))

BothThresholds(s) ==
    Truthy(config[s].sales_threshold) /\ Truthy(config[s].transaction_threshold)

\* The sales threshold of s is breached at all: in some 365-day window under
\* rolling_12m, in some calendar year under calendar_prev_curr.
SalesBreachedAtAll(s) ==
    IF config[s].lookback_rule = Some("rolling_12m")
    THEN \E D \in DatesOf(s) : TrailingSales(s, D) >= config[s].sales_threshold[1]
    ELSE \E y \in YearsOf(s) : SalesMet(s, y)

-----------------------------------------------------------------------------
(* C4 as stated: under either policy with both thresholds configured,      *)
(* whenever the sales threshold is breached at all (in any window or in    *)
(* any calendar year of the data) the reported breach_type is 'sales'.     *)
C4_SalesAlwaysFirst ==
    ( /\ Evaluated("rolling_12m") \/ Evaluated("calendar_prev_curr")
      /\ BothThresholds(result[1].state)
      /\ SalesBreachedAtAll(result[1].state) ) => IsSales(result[1])

(* C4 as amended: under rolling_12m with both thresholds configured a      *)
(* sales breach in any window is reported as 'sales'; under                *)
(* calendar_prev_curr it is reported as 'sales' unless an earlier year     *)
(* meets the transaction threshold without meeting the sales threshold.    *)
C4_SalesPriority ==
    ( /\ Evaluated("rolling_12m") \/ Evaluated("calendar_prev_curr")
      /\ BothThresholds(result[1].state)
      /\ SalesBreachedAtAll(result[1].state) ) =>
        LET r == result[1]
            s == r.state
            firstSales == Least({y \in YearsOf(s) : SalesMet(s, y)})
        IN  /\ r.has_nexus
            /\ Evaluated("rolling_12m") => IsSales(r)
            /\ Evaluated("calendar_prev_curr") =>
                  (IsSales(r) <=> ~\E y \in YearsOf(s) : y < firstSales /\ TransMet(s, y))

\* Under calendar_prev_curr a year meets both thresholds and 'sales' is
\* what is reported.
C4_Witness ==
    /\ Evaluated("calendar_prev_curr")
    /\ BothThresholds(result[1].state)
    /\ IsSales(result[1])
    /\ \E y \in YearsOf(result[1].state) :
          /\ SalesMet(result[1].state, y)
          /\ TransMet(result[1].state, y)
          /\ result[1].breach_date = Some(Jan1(y))

-----------------------------------------------------------------------------
(* C5: under rolling_12m with a non-zero transaction_threshold N and no    *)
(* sales breach, analyze_state reports a 'transactions' breach exactly     *)
(* when some record date has a trailing 365-day sum of transaction_count   *)
(* >= N; breach_date is the earliest such date and breach_amount that sum  *)
(* (1 transaction a day with N = 100 breaches on 0-indexed day 99).        *)
C5_RollingTransBreach ==
    ( /\ Evaluated("rolling_12m")
      /\ Truthy(config[result[1].state].transaction_threshold)
      /\ ~( /\ Truthy(config[result[1].state].sales_threshold)
            /\ SalesBreachedAtAll(result[1].state) ) ) =>
        LET r == result[1]
            s == r.state
            N == config[s].transaction_threshold[1]
            hits == {D \in DatesOf(s) : TrailingTrans(s, D) >= N}
            perDay == {x.transaction_count : x \in RowsOf(s)}
        IN  /\ IsTrans(r) <=> hits # {}
            /\ r.has_nexus <=> hits # {}
            /\ hits # {} =>
                  /\ r.breach_date = Some(Least(hits))
                  /\ r.breach_amount = Some(TrailingTrans(s, Least(hits)))
            /\ ( /\ perDay = {1}
                 /\ MaxDate(RowsOf(s)) - MinDate(RowsOf(s)) = Cardinality(RowsOf(s)) - 1
                 /\ N <= Cardinality(RowsOf(s))
                 /\ N <= 365 ) =>
                  /\ IsTrans(r)
                  /\ r.breach_date = Some(MinDate(RowsOf(s)) + N - 1)
                  /\ r.breach_amount = Some(N)

\* 150 days of 1 transaction a day against N = 100: the breach is on day 99.
C5_Witness ==
    /\ Evaluated("rolling_12m")
    /\ Cardinality(RowsOf(result[1].state)) = 150
    /\ \A x \in RowsOf(result[1].state) : x.transaction_count = 1
    /\ config[result[1].state].transaction_threshold = Some(100)
    /\ IsTrans(result[1])
    /\ result[1].breach_date = Some(99)
    /\ result[1].breach_amount = Some(100)

-----------------------------------------------------------------------------
(* C6: under calendar_prev_curr every breach has breach_date equal to      *)
(* January 1 of the breaching year, never the date of the transaction that *)
(* crossed the threshold, also when the state has no record on January 1;  *)
(* breach_amount is that year's total of the breaching metric.             *)
C6_CalendarAnchor ==
    Evaluated("calendar_prev_curr") /\ result[1].has_nexus =>
        LET r == result[1]
            s == r.state
            d == r.breach_date[1]
            y == YearOf(d)
        IN  /\ r.breach_date # None
            /\ IsJan1(d)
            /\ y \in YearsOf(s)
            /\ IsSales(r) \/ IsTrans(r)
            /\ IsSales(r) => SalesMet(s, y) /\ r.breach_amount = Some(AnnualSales(s, y))
            /\ IsTrans(r) => TransMet(s, y) /\ r.breach_amount = Some(AnnualTrans(s, y))

\* A breach in the year after BaseYear of a state whose only record of that
\* year is dated January 2.
C6_Witness ==
    /\ Evaluated("calendar_prev_curr")
    /\ result[1].has_nexus
    /\ result[1].breach_date = Some(365)
    /\ 365 \notin DatesOf(result[1].state)
    /\ 366 \in DatesOf(result[1].state)

-----------------------------------------------------------------------------
(* C7: under calendar_prev_curr the years are scanned in ascending order   *)
(* and the first year whose own total meets a configured threshold is      *)
(* reported: a sales breach in preference to a transaction breach of the   *)
(* same year, and an earlier year's breach of either kind instead of any   *)
(* breach of a later year.                                                 *)
C7_CalendarFirstYear ==
    Evaluated("calendar_prev_curr") =>
        LET r == result[1]
            s == r.state
            met == {y \in YearsOf(s) : SalesMet(s, y) \/ TransMet(s, y)}
            first == Least(met)
        IN  /\ r.has_nexus <=> met # {}
            /\ met # {} =>
                  /\ r.breach_date = Some(Jan1(first))
                  /\ SalesMet(s, first) => IsSales(r)
                  /\ ~SalesMet(s, first) => IsTrans(r)

\* An earlier year's transaction breach reported although a later year
\* meets the sales threshold.
C7_Witness ==
    /\ Evaluated("calendar_prev_curr")
    /\ IsTrans(result[1])
    /\ \E y \in YearsOf(result[1].state) :
          /\ Jan1(y) > result[1].breach_date[1]
          /\ SalesMet(result[1].state, y)

-----------------------------------------------------------------------------
(* C8: the list analyze_all_states returns has every has_nexus = true      *)
(* entry before every has_nexus = false entry, and within each of the two  *)
(* groups the entries are in strictly ascending order of state code.       *)
C8_ResultOrder ==
    results # None =>
        \A i, j \in 1..Len(results[1]) :
            i < j =>
                LET a == results[1][i]
                    b == results[1][j]
                IN  /\ ~(~a.has_nexus /\ b.has_nexus)
                    /\ a.has_nexus = b.has_nexus => StateRank(a.state) < StateRank(b.state)

\* Three results, a state with nexus after two without in the rule table's
\* key order, and first in the list returned.
C8_Witness ==
    /\ results # None
    /\ Len(results[1]) = 3
    /\ results[1][1].has_nexus
    /\ ~results[1][2].has_nexus
    /\ ~results[1][3].has_nexus
    /\ config_keys[3] = results[1][1].state
    /\ config_keys[1] = results[1][3].state

-----------------------------------------------------------------------------
(* C9: in analyze_all_states a configured state with no records gets a     *)
(* result with has_nexus = false, lookback_rule equal to the configured    *)
(* lookback_rule (implemented or not) and no breach_date, breach_type or   *)
(* breach_amount; analyze_state called directly on such a state leaves     *)
(* lookback_rule absent.                                                   *)
C9_NoDataResult ==
    /\ results # None =>
          \A s \in DOMAIN config :
              RowsOf(s) = {} =>
                  /\ \E i \in 1..Len(results[1]) : results[1][i].state = s
                  /\ \A i \in 1..Len(results[1]) :
                        results[1][i].state = s =>
                            results[1][i] =
                                [state |-> s, has_nexus |-> FALSE, breach_date |-> None,
                                 breach_type |-> None, breach_amount |-> None,
                                 lookback_rule |-> config[s].lookback_rule]
    /\ ( /\ result # None
         /\ result[1].state \in DOMAIN config
         /\ RowsOf(result[1].state) = {} ) =>
            /\ ~result[1].has_nexus
            /\ result[1].lookback_rule = None

\* analyze_all_states has returned for a table with a state under an
\* unimplemented rule and a state under rolling_12m, neither with records,
\* while another state has records.
C9_Witness ==
    /\ results # None
    /\ sales_data # {}
    /\ \E s, t \in DOMAIN config :
          /\ RowsOf(s) = {}
          /\ RowsOf(t) = {}
          /\ config[s].lookback_rule = Some("rolling_4q")
          /\ config[t].lookback_rule = Some("rolling_12m")
          /\ \E i, j \in 1..Len(results[1]) :
                /\ results[1][i].state = s
                /\ results[1][i].lookback_rule = Some("rolling_4q")
                /\ results[1][j].state = t
                /\ results[1][j].lookback_rule = Some("rolling_12m")

-----------------------------------------------------------------------------
(* C10: analyze_state for a state with no rule in the configuration        *)
(* returns has_nexus = false with lookback_rule, breach_date, breach_type  *)
(* and breach_amount absent, whatever the records, rows of that state      *)
(* included.                                                               *)
C10_NoRule ==
    result # None /\ result[1].state \notin DOMAIN config =>
        result[1] = [state |-> result[1].state, has_nexus |-> FALSE,
                     breach_date |-> None, breach_type |-> None,
                     breach_amount |-> None, lookback_rule |-> None]

\* analyze_state has returned for a state without a rule that has rows whose
\* totals would meet the thresholds other states are configured with.
C10_Witness ==
    /\ result # None
    /\ result[1].state \notin DOMAIN config
    /\ DOMAIN config # {}
    /\ Cardinality(RowsOf(result[1].state)) >= 2
    /\ ~result[1].has_nexus

-----------------------------------------------------------------------------
(* C11: analyze_state for a configured state with no records of that state *)
(* in the data returns a result (no error) with has_nexus = false and with *)
(* lookback_rule, breach_date, breach_type and breach_amount absent,       *)
(* whether the configured rule is rolling_12m, calendar_prev_curr or an    *)
(* unimplemented value.                                                    *)
C11_EmptyStateData ==
    \A rule \in Lookbacks :
        ( /\ result # None
          /\ result[1].state \in DOMAIN config
          /\ config[result[1].state].lookback_rule = rule
          /\ RowsOf(result[1].state) = {} ) =>
            result[1] = [state |-> result[1].state, has_nexus |-> FALSE,
                         breach_date |-> None, breach_type |-> None,
                         breach_amount |-> None, lookback_rule |-> None]

\* analyze_state has returned for a state configured with calendar_prev_curr
\* that has no rows, while the data holds rows of other states.
C11_Witness ==
    /\ result # None
    /\ result[1].state \in DOMAIN config
    /\ config[result[1].state].lookback_rule = Some("calendar_prev_curr")
    /\ RowsOf(result[1].state) = {}
    /\ sales_data # {}
    /\ result[1].lookback_rule = None

-----------------------------------------------------------------------------
(* C12: analyze_state for a state with at least one record whose rule's    *)
(* lookback_rule is neither rolling_12m nor calendar_prev_curr returns a   *)
(* result (no error) with has_nexus = false, lookback_rule set to that     *)
(* unimplemented value and breach_date, breach_type and breach_amount      *)
(* absent, whatever the thresholds and the data.                           *)
C12_UnimplementedRule ==
    ( /\ result # None
      /\ result[1].state \in DOMAIN config
      /\ config[result[1].state].lookback_rule
            \notin {Some("rolling_12m"), Some("calendar_prev_curr")}
      /\ RowsOf(result[1].state) # {} ) =>
        result[1] = [state |-> result[1].state, has_nexus |-> FALSE,
                     breach_date |-> None, breach_type |-> None,
                     breach_amount |-> None,
                     lookback_rule |-> config[result[1].state].lookback_rule]

\* analyze_state has returned for a state under rolling_4q whose rows meet
\* both the sales and the transaction threshold of its rule.
C12_Witness ==
    /\ Evaluated("rolling_4q")
    /\ LET s == result[1].state
       IN  /\ config[s].sales_threshold = Some(SalesT)
           /\ config[s].transaction_threshold = Some(TransN)
           /\ TotalSales(s) >= SalesT
           /\ \E r \in RowsOf(s) : r.transaction_count >= TransN
           /\ result[1].lookback_rule = Some("rolling_4q")

-----------------------------------------------------------------------------
(* C13: under both policies a metric whose threshold is absent or zero is  *)
(* not evaluated: a rule with both thresholds absent or zero yields        *)
(* has_nexus = false (a result, not an error) for every record set, a zero *)
(* or absent sales_threshold never produces a 'sales' breach, and a zero   *)
(* or absent transaction_threshold never produces a 'transactions' breach. *)
C13_UnsetThreshold ==
    \A rule \in {"rolling_12m", "calendar_prev_curr"} :
        Evaluated(rule) =>
            LET s == result[1].state
                noSales == config[s].sales_threshold \in {None, Some(0)}
                noTrans == config[s].transaction_threshold \in {None, Some(0)}
            IN  /\ noSales => ~IsSales(result[1])
                /\ noTrans => ~IsTrans(result[1])
                /\ noSales /\ noTrans =>
                      result[1] = [state |-> s, has_nexus |-> FALSE,
                                   breach_date |-> None, breach_type |-> None,
                                   breach_amount |-> None, lookback_rule |-> Some(rule)]

\* analyze_state has returned no nexus for a state with positive sales and
\* transactions under calendar_prev_curr with a zero sales_threshold and no
\* transaction_threshold.
C13_Witness ==
    /\ Evaluated("calendar_prev_curr")
    /\ LET s == result[1].state
       IN  /\ config[s].sales_threshold = Some(0)
           /\ config[s].transaction_threshold = None
           /\ TotalSales(s) > 0
           /\ ~result[1].has_nexus

-----------------------------------------------------------------------------
(* Sums of the two sales columns over a set of rows of the data.           *)

DirectSum(R) == SumOf([r \in R |-> r.nexus_sales], R)

MarketSum(R) == SumOf([r \in R |-> r.marketplace_sales], R)

\* What the rows R amount to against the sales threshold of state s: direct
\* sales alone when the flag is false, direct plus marketplace sales otherwise.
Compared(s, R) ==
    IF config[s].marketplace_threshold_inclusion = Some(FALSE)
    THEN DirectSum(R)
    ELSE DirectSum(R) + MarketSum(R)

\* The rows of state s dated D or earlier.
UpTo(s, D) == {r \in RowsOf(s) : r.date <= D}

\* The result is for a state with 400000 of direct and 150000 of marketplace
\* sales under a 500000 sales threshold and no transaction threshold.
MarketplaceExample ==
    /\ result # None
    /\ result[1].state \in DOMAIN config
    /\ LET s == result[1].state
       IN  /\ config[s].sales_threshold = Some(500000)
           /\ config[s].transaction_threshold = None
           /\ DirectSum(RowsOf(s)) = 400000
           /\ MarketSum(RowsOf(s)) = 150000

-----------------------------------------------------------------------------
(* C14 as stated: in the marketplace example, under either policy, the     *)
(* flag false gives no breach and the flag true gives a sales breach dated *)
(* the first date where the cumulative direct + marketplace sum reaches    *)
(* 500000.                                                                 *)
C14_BreachAtCumulativeDate ==
    MarketplaceExample =>
        LET s == result[1].state
            flag == config[s].marketplace_threshold_inclusion
        IN  /\ flag = Some(FALSE) => ~result[1].has_nexus
            /\ flag = Some(TRUE) =>
                  /\ IsSales(result[1])
                  /\ result[1].breach_date =
                        Some(Least({D \in DatesOf(s) :
                                      DirectSum(UpTo(s, D)) + MarketSum(UpTo(s, D)) >= 500000}))

(* C14: the value compared with sales_threshold is nexus_sales +           *)
(* marketplace_sales when marketplace_threshold_inclusion is true and      *)
(* nexus_sales alone when it is false, summed over the trailing 365 days   *)
(* under rolling_12m and over the calendar year under calendar_prev_curr.  *)
(* In the marketplace example the flag false gives no breach under either  *)
(* policy; the flag true gives, under rolling_12m, a sales breach at the   *)
(* first date where the trailing direct + marketplace sum reaches 500000,  *)
(* and under calendar_prev_curr a sales breach dated January 1 of the      *)
(* first year whose direct + marketplace total reaches 500000, and no      *)
(* breach when no single year's total does.                                *)
C14_MarketplaceInclusion ==
    /\ Evaluated("rolling_12m") /\ Truthy(config[result[1].state].sales_threshold) =>
          LET s == result[1].state
              T == config[s].sales_threshold[1]
              hit == {D \in DatesOf(s) : Compared(s, InWindow(s, D)) >= T}
          IN  /\ IsSales(result[1]) <=> hit # {}
              /\ IsSales(result[1]) =>
                    /\ result[1].breach_date = Some(Least(hit))
                    /\ result[1].breach_amount = Some(Compared(s, InWindow(s, Least(hit))))
    /\ Evaluated("calendar_prev_curr") /\ Truthy(config[result[1].state].sales_threshold) =>
          LET s == result[1].state
              T == config[s].sales_threshold[1]
              hit == {y \in YearsOf(s) : Compared(s, InYear(s, y)) >= T}
          IN  /\ IsSales(result[1]) =>
                    \E y \in hit :
                        /\ result[1].breach_date = Some(Jan1(y))
                        /\ result[1].breach_amount = Some(Compared(s, InYear(s, y)))
              /\ ~Truthy(config[s].transaction_threshold) =>
                    /\ IsSales(result[1]) <=> hit # {}
                    /\ IsSales(result[1]) => result[1].breach_date = Some(Jan1(Least(hit)))
    /\ MarketplaceExample =>
          LET s == result[1].state
              flag == config[s].marketplace_threshold_inclusion
              rule == config[s].lookback_rule
              full(R) == DirectSum(R) + MarketSum(R)
              hitDays == {D \in DatesOf(s) : full(InWindow(s, D)) >= 500000}
              hitYears == {y \in YearsOf(s) : full(InYear(s, y)) >= 500000}
          IN  /\ flag = Some(FALSE) => ~result[1].has_nexus
              /\ flag = Some(TRUE) /\ rule = Some("rolling_12m") =>
                    /\ IsSales(result[1])
                    /\ result[1].breach_date = Some(Least(hitDays))
              /\ flag = Some(TRUE) /\ rule = Some("calendar_prev_curr") =>
                    /\ IsSales(result[1]) <=> hitYears # {}
                    /\ IsSales(result[1]) =>
                          result[1].breach_date = Some(Jan1(Least(hitYears)))

\* analyze_state has returned, under rolling_12m with the flag true, a sales
\* breach of 550000 at the fourth of four rows of 100000 direct and 37500
\* marketplace sales.
C14_Witness ==
    /\ MarketplaceExample
    /\ Evaluated("rolling_12m")
    /\ LET s == result[1].state
       IN  /\ config[s].marketplace_threshold_inclusion = Some(TRUE)
           /\ Cardinality(RowsOf(s)) = 4
           /\ IsSales(result[1])
           /\ result[1].breach_date = Some(Least({D \in DatesOf(s) : \A E \in DatesOf(s) : E <= D}))
           /\ result[1].breach_amount = Some(550000)

-----------------------------------------------------------------------------
(* C15: no-breach stability.  For a state with records whose trailing      *)
(* 365-day sums (rolling_12m) or calendar-year totals (calendar_prev_curr) *)
(* never reach a configured threshold, analyze_state returns has_nexus =   *)
(* false with breach_date, breach_type and breach_amount absent and        *)
(* lookback_rule echoing the policy, however many records there are.       *)
C15_NoBreachStability ==
    /\ Evaluated("rolling_12m") =>
          LET s == result[1].state
          IN  ( /\ Truthy(config[s].sales_threshold) =>
                      \A D \in DatesOf(s) :
                          TrailingSales(s, D) < config[s].sales_threshold[1]
                /\ Truthy(config[s].transaction_threshold) =>
                      \A D \in DatesOf(s) :
                          TrailingTrans(s, D) < config[s].transaction_threshold[1] ) =>
                  result[1] = [state |-> s, has_nexus |-> FALSE, breach_date |-> None,
                               breach_type |-> None, breach_amount |-> None,
                               lookback_rule |-> Some("rolling_12m")]
    /\ Evaluated("calendar_prev_curr") =>
          LET s == result[1].state
          IN  ( /\ Truthy(config[s].sales_threshold) =>
                      \A y \in YearsOf(s) :
                          AnnualSales(s, y) < config[s].sales_threshold[1]
                /\ Truthy(config[s].transaction_threshold) =>
                      \A y \in YearsOf(s) :
                          AnnualTrans(s, y) < config[s].transaction_threshold[1] ) =>
                  result[1] = [state |-> s, has_nexus |-> FALSE, breach_date |-> None,
                               breach_type |-> None, breach_amount |-> None,
                               lookback_rule |-> Some("calendar_prev_curr")]

\* analyze_state has returned no nexus under rolling_12m and a 500000 sales
\* threshold for a state with 365 daily rows of 1000 direct and 200
\* marketplace sales.
C15_Witness ==
    /\ Evaluated("rolling_12m")
    /\ LET s == result[1].state
       IN  /\ config[s].sales_threshold = Some(500000)
           /\ Cardinality(RowsOf(s)) = 365
           /\ \A r \in RowsOf(s) : r.nexus_sales = 1000 /\ r.marketplace_sales = 200
           /\ ~result[1].has_nexus
           /\ result[1].breach_date = None
           /\ result[1].lookback_rule = Some("rolling_12m")

-----------------------------------------------------------------------------
-----------------------------------------------------------------------------
(* C17: the list analyze_all_states returns does not depend on the order   *)
(* in which the configured states are evaluated: with the rule table       *)
(* iterated in any order, the per-state results, once sorted, form the     *)
(* sequence that was returned.                                             *)
C17_OrderIndependent ==
    results # None =>
        \A keys \in Orders(DOMAIN config) :
            analyze_all_states(config, keys, sales_data) = results[1]

\* analyze_all_states has returned for three states iterated in an order that
\* is not the order of the results, some with nexus and some without.
C17_Witness ==
    /\ results # None
    /\ Len(config_keys) = 3
    /\ results[1][1].state = config_keys[2]
    /\ results[1][2].state = config_keys[3]
    /\ results[1][1].has_nexus
    /\ ~results[1][2].has_nexus
    /\ ~results[1][3].has_nexus

-----------------------------------------------------------------------------
\* The record set holds rows of a state other than s.
ForeignRows(s) == \E r \in sales_data : r.state # s

(* C18 as stated: analyze_state called for a state with a record set that  *)
(* holds rows of another state does not return a breach result: the        *)
(* outcome is an error, distinct from a result with has_nexus = false.     *)
C18_RejectsForeignRows ==
    result # None /\ ForeignRows(result[1].state) =>
        "has_nexus" \notin DOMAIN result[1]

(* C18: analyze_state called for state S with a record set that holds rows *)
(* of other states does not reject the call: it returns a breach result,   *)
(* the one it returns for the rows of S alone.                             *)
C18_ForeignRowsIgnored ==
    result # None /\ ForeignRows(result[1].state) =>
        /\ DOMAIN result[1] = {"state", "has_nexus", "breach_date", "breach_type",
                               "breach_amount", "lookback_rule"}
        /\ result[1] = analyze_state(config, result[1].state, RowsOf(result[1].state))

\* analyze_state has returned no nexus for a state under rolling_12m whose own
\* row is below the sales threshold, while the rows of the other states
\* together with it would reach the threshold.
C18_Witness ==
    /\ Evaluated("rolling_12m")
    /\ LET s == result[1].state
       IN  /\ ForeignRows(s)
           /\ Truthy(config[s].sales_threshold)
           /\ DirectSum(RowsOf(s)) + MarketSum(RowsOf(s)) < config[s].sales_threshold[1]
           /\ DirectSum(sales_data) + MarketSum(sales_data) >= config[s].sales_threshold[1]
           /\ ~result[1].has_nexus

-----------------------------------------------------------------------------
(* Raw rows and the rows of the cleaner's output they end up in.           *)

\* The raw spellings of each state code.
Spells(cs, code) ==
    cs \in (CASE code = "CA" -> {<<"C", "A">>, <<"c", "a">>, <<" ", "C", "A", " ">>}
              [] code = "NY" -> {<<"N", "Y">>, <<"n", "y">>}
              [] OTHER -> {})

\* The raw rows of state code c with the valid date d.
RawOf(c, d) ==
    {i \in 1..Len(raw_df) :
        Spells(raw_df[i].state, c) /\ to_datetime(raw_df[i].date) = Some(d)}

\* The valid dates of the raw frame.
RawDays ==
    {to_datetime(raw_df[i].date)[1] :
        i \in {k \in 1..Len(raw_df) : to_datetime(raw_df[k].date) # NaT}}

\* What a raw gross_sales cell adds to nexus_sales: max(gross_sales, 0).
Positive(o) == IF o # None /\ o[1] > 0 THEN o[1] ELSE 0

-----------------------------------------------------------------------------
-----------------------------------------------------------------------------
(* C20: every row DataCleaner.clean produces has nexus_sales >= 0.  Each   *)
(* raw row contributes max(gross_sales, 0), clipped before duplicates are  *)
(* merged, so a negative raw row never reduces what another row of the     *)
(* same state and date contributes, while gross_sales keeps the signed sum.*)
C20_NexusSalesClipped ==
    clean_df # None =>
        \A i \in 1..Len(clean_df[1]) :
            LET row == clean_df[1][i]
                G == RawOf(row.state, row.date)
            IN  /\ row.nexus_sales >= 0
                /\ row.nexus_sales = SumIdx([k \in G |-> Positive(raw_df[k].gross_sales)], G)
                /\ \A k \in G : row.nexus_sales >= Positive(raw_df[k].gross_sales)
                /\ row.gross_sales = SumIdx([k \in G |-> to_numeric(raw_df[k].gross_sales)], G)

\* clean has merged a sale of 3 and a return of 2 of the same state and date:
\* nexus_sales is 3 and gross_sales is 1.
C20_Witness ==
    /\ clean_df # None
    /\ \E i \in 1..Len(clean_df[1]) :
          LET row == clean_df[1][i]
              G == RawOf(row.state, row.date)
          IN  /\ Cardinality(G) = 2
              /\ \E k \in G : raw_df[k].gross_sales = Some(3)
              /\ \E k \in G : raw_df[k].gross_sales = Some(-2)
              /\ row.nexus_sales = 3
              /\ row.gross_sales = 1

-----------------------------------------------------------------------------
\* The raw rows whose date text is a date, and those whose date text is not.
ValidRows == {i \in 1..Len(raw_df) : raw_df[i].date \notin BadDates}

InvalidRows == {i \in 1..Len(raw_df) : raw_df[i].date \in BadDates}

-----------------------------------------------------------------------------
\* The output rows of state code c, and the valid dates of its raw rows.
OutOf(c) == {i \in 1..Len(clean_df[1]) : clean_df[1][i].state = c}

RawDaysOf(c) == {d \in RawDays : RawOf(c, d) # {}}

-----------------------------------------------------------------------------
(* C23: under calendar_prev_curr each calendar year is compared with the   *)
(* thresholds on its own total only; totals of consecutive years are never *)
(* added together.  A state whose sales of the previous and the current    *)
(* year together reach the sales threshold while every single year stays   *)
(* below it, and whose transactions meet the transaction threshold in no   *)
(* year, gets has_nexus = false; a reported breach_amount is the total of  *)
(* the breach year alone.                                                  *)
C23_YearsNotAdded ==
    Evaluated("calendar_prev_curr") =>
        LET s == result[1].state
        IN  /\ ( /\ Truthy(config[s].sales_threshold)
                 /\ \A y \in YearsOf(s) : AnnualSales(s, y) < config[s].sales_threshold[1]
                 /\ \A y \in YearsOf(s) : ~TransMet(s, y) ) =>
                    ~result[1].has_nexus
            /\ result[1].has_nexus =>
                  \E y \in YearsOf(s) :
                      /\ result[1].breach_date = Some(Jan1(y))
                      /\ IsSales(result[1]) => result[1].breach_amount = Some(AnnualSales(s, y))
                      /\ IsTrans(result[1]) => result[1].breach_amount = Some(AnnualTrans(s, y))

\* analyze_state has returned no nexus under calendar_prev_curr for a state
\* with rows in two consecutive years whose sales together reach the sales
\* threshold while neither year's total does.
C23_Witness ==
    /\ Evaluated("calendar_prev_curr")
    /\ LET s == result[1].state
       IN  /\ Truthy(config[s].sales_threshold)
           /\ YearsOf(s) = {BaseYear, BaseYear + 1}
           /\ \A y \in YearsOf(s) : AnnualSales(s, y) < config[s].sales_threshold[1]
           /\ AnnualSales(s, BaseYear) + AnnualSales(s, BaseYear + 1)
                 >= config[s].sales_threshold[1]
           /\ ~result[1].has_nexus

-----------------------------------------------------------------------------
\* The sum a breach result r reports on: the metric of its breach_type over
\* the window (rolling_12m) or the year (calendar_prev_curr) of its breach_date.
Observed(r) ==
    LET s == r.state
        D == r.breach_date[1]
    IN  IF r.lookback_rule = Some("rolling_12m")
        THEN (IF r.breach_type = Some("sales") THEN TrailingSales(s, D)
              ELSE TrailingTrans(s, D))
        ELSE (IF r.breach_type = Some("sales") THEN AnnualSales(s, YearOf(D))
              ELSE AnnualTrans(s, YearOf(D)))

\* The configured threshold of the metric a breach result r reports on.
ThresholdOf(r) ==
    IF r.breach_type = Some("sales") THEN config[r.state].sales_threshold
    ELSE config[r.state].transaction_threshold

\* The shape every result has.
ResultShape(r) ==
    /\ r.has_nexus <=>
          r.breach_date # None /\ r.breach_type # None /\ r.breach_amount # None
    /\ ~r.has_nexus =>
          r.breach_date = None /\ r.breach_type = None /\ r.breach_amount = None
    /\ r.has_nexus =>
          /\ r.breach_type \in {Some("sales"), Some("transactions")}
          /\ r.lookback_rule \in {Some("rolling_12m"), Some("calendar_prev_curr")}
          /\ r.state \in DOMAIN config
          /\ r.lookback_rule = config[r.state].lookback_rule
          /\ Truthy(ThresholdOf(r))
          /\ r.breach_amount = Some(Observed(r))
          /\ r.breach_amount[1] >= ThresholdOf(r)[1]

(* C24: every result of analyze_state and analyze_all_states has has_nexus *)
(* = true if and only if breach_date, breach_type and breach_amount are    *)
(* all present; then breach_type is 'sales' or 'transactions',             *)
(* lookback_rule is the implemented policy of the state's rule, and        *)
(* breach_amount is the observed sum of that metric, at least the          *)
(* configured threshold of that metric; with has_nexus = false all three   *)
(* are absent.                                                             *)
C24_ResultShape ==
    /\ result # None => ResultShape(result[1])
    /\ results # None => \A i \in 1..Len(results[1]) : ResultShape(results[1][i])

\* analyze_all_states has returned a sales breach whose amount exceeds the
\* sales threshold, next to a result without nexus.
C24_Witness ==
    /\ results # None
    /\ \E i, j \in 1..Len(results[1]) :
          /\ IsSales(results[1][i])
          /\ results[1][i].breach_amount[1] > config[results[1][i].state].sales_threshold[1]
          /\ ~results[1][j].has_nexus

-----------------------------------------------------------------------------
(* C25: analyze_all_states returns exactly one result per configured       *)
(* state: the list is as long as the rule table and no state code repeats; *)
(* a state that occurs only in the data and has no rule gets no result;    *)
(* and the entry of a configured state with at least one record is the     *)
(* result of analyze_state for that state on the same data.                *)
C25_OneResultPerRule ==
    results # None =>
        LET out == results[1]
        IN  /\ Len(out) = Cardinality(DOMAIN config)
            /\ \A i, j \in 1..Len(out) : out[i].state = out[j].state => i = j
            /\ {out[i].state : i \in 1..Len(out)} = DOMAIN config
            /\ \A i \in 1..Len(out) :
                  RowsOf(out[i].state) # {} =>
                      out[i] = analyze_state(config, out[i].state, sales_data)

\* analyze_all_states has returned two results for a table of two states,
\* one of them a breach, while the data also holds rows of a third state
\* that has no rule.
C25_Witness ==
    /\ results # None
    /\ Len(results[1]) = 2
    /\ results[1][1].has_nexus
    /\ \E r \in sales_data : r.state \notin DOMAIN config
    /\ \A i \in 1..2 : RowsOf(results[1][i].state) # {}

-----------------------------------------------------------------------------
\* The rule table with every state but s removed.
OwnRule(s) == [t \in DOMAIN config \cap {s} |-> config[t]]

(* C26: the result of analyze_state for state S depends only on S's own    *)
(* records and S's own rule: it is the result computed from S's rows and   *)
(* S's rule with every other state's rows and rules removed, so adding,    *)
(* removing or changing rows or rules of other states changes no field.    *)
C26_StateIndependence ==
    result # None =>
        result[1] = analyze_state(OwnRule(result[1].state), result[1].state,
                                  RowsOf(result[1].state))

\* analyze_state has returned a breach for a state while the data holds rows
\* of other states and the table holds a different rule for another state.
C26_Witness ==
    /\ result # None
    /\ result[1].has_nexus
    /\ ForeignRows(result[1].state)
    /\ \E t \in DOMAIN config :
          /\ t # result[1].state
          /\ config[t] # config[result[1].state]
          /\ RowsOf(t) # {}

-----------------------------------------------------------------------------
\* analyze_state has just returned a sales breach for a state evaluated under
\* rolling_12m with a sales threshold and no transaction threshold.
SalesOnlyBreach ==
    /\ Evaluated("rolling_12m")
    /\ Truthy(config[result[1].state].sales_threshold)
    /\ ~Truthy(config[result[1].state].transaction_threshold)
    /\ \A r \in RowsOf(result[1].state) : r.nexus_sales >= 0 /\ r.marketplace_sales >= 0
    /\ IsSales(result[1])

\* The result for the same records with the state's sales threshold set to T.
WithThreshold(T) ==
    analyze_state([config EXCEPT ![result[1].state].sales_threshold = Some(T)],
                  result[1].state, sales_data)

\* The result for the same records with marketplace sales counted.
WithInclusion ==
    analyze_state([config EXCEPT ![result[1].state].marketplace_threshold_inclusion
                                     = Some(TRUE)],
                  result[1].state, sales_data)

\* The thresholds T2 with 0 < T2 <= T that are compared with T: every one of
\* them for a small T, and the least, a quarter, a half and the greatest of
\* them for a large one.
LowerThresholds(T) ==
    IF T <= 2 * SalesT THEN 1..T
    ELSE {T2 \in {1, T \div 4, T \div 2, T - 1, T} : 0 < T2 /\ T2 <= T}

\* r is a breach dated no later than the breach just returned.
NoLater(r) == r.has_nexus /\ r.breach_date[1] <= result[1].breach_date[1]

(* C27: under rolling_12m with non-negative amounts and only a sales       *)
(* threshold T1 configured, if the records give a breach on date D1 then   *)
(* every threshold T2 with 0 < T2 <= T1 gives a breach on a date D2 <= D1, *)
(* and counting marketplace sales where they were not counted keeps the    *)
(* breach and gives a date no later than D1.                               *)
C27_Monotone ==
    SalesOnlyBreach =>
        /\ \A T2 \in LowerThresholds(config[result[1].state].sales_threshold[1]) :
              NoLater(WithThreshold(T2))
        /\ ~InclusionFlag(config[result[1].state]) => NoLater(WithInclusion)

\* A sales breach returned with marketplace sales not counted, for records
\* where a lower threshold breaches on an earlier date and where counting
\* marketplace sales breaches on an earlier date too.
C27_Witness ==
    /\ SalesOnlyBreach
    /\ ~InclusionFlag(config[result[1].state])
    /\ WithInclusion.breach_date[1] < result[1].breach_date[1]
    /\ \E T2 \in LowerThresholds(config[result[1].state].sales_threshold[1]) :
          WithThreshold(T2).breach_date[1] < result[1].breach_date[1]

-----------------------------------------------------------------------------
(* C28 as stated: every row produced by clean has marketplace_sales >= 0   *)
(* and transaction_count >= 0, for every raw frame, raw rows with a        *)
(* negative marketplace_sales or transaction_count included.               *)
C28_OptionalColumnsNonNegative ==
    clean_df # None =>
        \A i \in 1..Len(clean_df[1]) :
            /\ clean_df[1][i].marketplace_sales >= 0
            /\ clean_df[1][i].transaction_count >= 0

-----------------------------------------------------------------------------
\* The loaded rule table and the parsed mapping it was loaded from.
LoadedStates == nexus_config[1].states

\* The entry fails validation: no tax rate or one outside 0..0.15, or a
\* threshold that is negative or above its maximum.
FailsValidation(e) ==
    \/ e.tax_rate = None
    \/ (e.tax_rate # None /\ (e.tax_rate[1] < 0 \/ e.tax_rate[1] > MaxTaxRate))
    \/ (e.sales_threshold # None
           /\ (e.sales_threshold[1] < 0 \/ e.sales_threshold[1] > MaxSalesThreshold))
    \/ (e.transaction_threshold # None
           /\ (e.transaction_threshold[1] < 0
                  \/ e.transaction_threshold[1] > MaxTransactionThreshold))

\* The key's entry names a rule other than the two implemented ones.
OtherRule(k) ==
    /\ yaml_data[1][k] # None
    /\ yaml_data[1][k][1].lookback_rule \notin {Some("rolling_12m"), Some("calendar_prev_curr")}

\* The key's entry names an implemented rule and fails validation.
Invalid(k) ==
    /\ yaml_data[1][k] # None
    /\ yaml_data[1][k][1].lookback_rule \in {Some("rolling_12m"), Some("calendar_prev_curr")}
    /\ FailsValidation(yaml_data[1][k][1])

\* The unimplemented-rule outcome of analyze_state: no nexus, with a rule
\* other than the two implemented ones echoed.
UnimplementedOutcome(r) ==
    /\ ~r.has_nexus
    /\ r.lookback_rule # None
    /\ r.lookback_rule \notin {Some("rolling_12m"), Some("calendar_prev_curr")}

(* C29: every state of the rule table from_yaml produces has lookback_rule *)
(* rolling_12m or calendar_prev_curr; entries with another rule, entries   *)
(* that fail validation and the keys DEFAULT, _metadata and metadata are   *)
(* not states of the table; and no evaluation driven by the loaded table   *)
(* returns the unimplemented-rule outcome.                                 *)
C29_LoadedRulesImplemented ==
    nexus_config # None =>
        /\ \A s \in DOMAIN LoadedStates :
              LoadedStates[s].lookback_rule \in {"rolling_12m", "calendar_prev_curr"}
        /\ \A k \in DOMAIN yaml_data[1] :
              (k \in {"DEFAULT", "_metadata", "metadata"} \/ OtherRule(k) \/ Invalid(k))
                  => k \notin DOMAIN LoadedStates
        /\ result # None => ~UnimplementedOutcome(result[1])

\* A table loaded with one state from a mapping that also holds an entry with
\* another rule, an entry that fails validation and a special key, after an
\* evaluation of a state of the table has returned.
C29_Witness ==
    /\ nexus_config # None
    /\ DOMAIN LoadedStates # {}
    /\ \E k \in DOMAIN yaml_data[1] : k \notin SpecialKeys /\ OtherRule(k)
    /\ \E k \in DOMAIN yaml_data[1] : k \notin SpecialKeys /\ Invalid(k)
    /\ \E k \in DOMAIN yaml_data[1] : k \in SpecialKeys
    /\ result # None
    /\ result[1].state \in DOMAIN LoadedStates

====
